---- MODULE Spec2Model ----
(***************************************************************************)
(* Model of mcaustin/lw-hub: the React search component in its three       *)
(* variants (App.tsx BaseList, App.tsx MovieList, part_000 MovieList), the *)
(* AppSync HTTP resolver (searchBaseResolver.js) and the deployment-time   *)
(* assembly of IAM statements and the ingestion pipeline template          *)
(* (backend.ts).                                                           *)
(***************************************************************************)
EXTENDS Integers, Sequences, FiniteSets, TLC

VARIABLES
    \* ---- search component (React state cells and the network) ----
    variant,         \* which of the three component sources is running
    mounted,         \* has the mount effect run
    unmounted,       \* has React unmounted the component
    movies,          \* useState: the full list
    filteredMovies,  \* useState: the displayed list
    searchQuery,     \* useState: the text of the search box, a sequence of characters
    isLoading,       \* useState
    error,           \* useState: the message shown in .error-message ("" shows nothing)
    requests,        \* every network request issued so far, in issue order
    lastOp,          \* the handler or callback that ran last, with what it saw
    \* ---- resolver ----
    resolverPc,      \* position of one resolver invocation
    ctxArgs,         \* ctx.args handed to request()
    httpRequest,     \* what request() produced
    ctxResult,       \* ctx.result handed to response()
    resolverOut,     \* what response() produced
    \* ---- backend assembly ----
    env,             \* the identifiers CDK resolves at deployment
    pc,              \* position in backend.ts
    dataSourcePolicy,
    pipelineRolePolicy,
    openSearchTemplate

uiVars == <<variant, mounted, unmounted, movies, filteredMovies, searchQuery, isLoading, error,
            requests, lastOp>>
resolverVars == <<resolverPc, ctxArgs, httpRequest, ctxResult, resolverOut>>
backendVars == <<env, pc, dataSourcePolicy, pipelineRolePolicy, openSearchTemplate>>
vars == <<uiVars, resolverVars, backendVars>>

----------------------------------------------------------------------------
(* Bounds *)

MaxHits == 2        \* longest hit list a response carries
MaxQueryLen == 1    \* longest text typed into the search box
MaxRequests == 2    \* network requests issued in one run

----------------------------------------------------------------------------
(* Documents and responses *)

\* A field that the JSON document does not carry (JavaScript undefined).
Absent == "<undefined>"

Docs ==
    { [name |-> "ABC Base", allianceTag |-> Absent],
      [name |-> "XYZ", allianceTag |-> "AB"] }

\* A hit of the search engine: the document sits under _source.
Hits == { [_index |-> "movie", _source |-> d] : d \in Docs }

SeqsUpTo(S, n) == UNION { [1..k -> S] : k \in 0..n }

HitLists == SeqsUpTo(Hits, MaxHits)
DocLists == SeqsUpTo(Docs, MaxHits)

\* hits.map((hit) => hit._source)
MapSourceReversed(hits) == [i \in 1..Len(hits) |-> hits[Len(hits) + 1 - i]._source]
MapSource(hits) == [i \in 1..Len(hits) |-> hits[i]._source]

----------------------------------------------------------------------------
(* Search component: pure helpers *)

Variants == {"BaseList", "MovieListAxios", "MovieListAwait"}
Awaits(v) == v = "MovieListAwait"

Chars == {" ", "a"}
Queries == SeqsUpTo(Chars, MaxQueryLen)

RECURSIVE TrimStart(_)
TrimStart(s) == IF s # <<>> /\ Head(s) = " " THEN TrimStart(Tail(s)) ELSE s

RECURSIVE TrimEnd(_)
TrimEnd(s) ==
    IF s # <<>> /\ s[Len(s)] = " " THEN TrimEnd(SubSeq(s, 1, Len(s) - 1)) ELSE s

\* String.prototype.trim
NoTrim(s) == s
Trim(s) == TrimEnd(TrimStart(s))

\* JavaScript truthiness of a string-or-undefined field
Truthy(v) == v # Absent /\ v # ""

\* base["allianceTag"] = base.allianceTag ? "[" + base.allianceTag + "]" : ""
Decorate(base) ==
    [base EXCEPT !.allianceTag =
        IF Truthy(base.allianceTag) THEN "[" \o base.allianceTag \o "]" ELSE ""]

DecorateAll(data) == [i \in 1..Len(data) |-> Decorate(data[i])]

\* What the .then callback of axios.get computes from response.data.hits.hits
ThenDataUndecorated(v, hits) == MapSource(hits)
ThenData(v, hits) ==
    IF v = "BaseList" THEN DecorateAll(MapSource(hits)) ELSE MapSource(hits)

\* React renders undefined as nothing
Text(v) == IF v = Absent THEN "" ELSE v

\* The text of the card's <h3 className="movie-title">
CardTitle(v, base) ==
    IF v = "BaseList" THEN Text(base.allianceTag) \o " " \o Text(base.name)
    ELSE Text(base.name)

\* The cards on screen: the carousel is rendered only when not loading
Cards ==
    IF ~mounted \/ unmounted \/ isLoading THEN <<>>
    ELSE [i \in 1..Len(filteredMovies) |-> CardTitle(variant, filteredMovies[i])]

SearchFailedMsg == "Search failed. Please try again."
FetchFailedMsg(v) ==
    IF v = "MovieListAwait" THEN "Failed to fetch movies. Please try again."
    ELSE "Failed to fetch bases. Please try again."

\* How a request ends.  axios: "ok" (2xx, body with hits.hits; payload = the hits),
\* "malformed" (2xx, no hits.hits: the .then callback throws), "reject" (non-2xx
\* or network error).  Awaited client call: "data" (payload = the documents),
\* "null" (data is null), "throw" (the call rejects).
Outcome(k, p) == [kind |-> k, payload |-> p]
NoOutcome == Outcome("none", <<>>)
AxiosOutcomes ==
    { Outcome("ok", h) : h \in HitLists } \cup {Outcome("malformed", <<>>), Outcome("reject", <<>>)}
AwaitSearchOutcomes ==
    { Outcome("data", d) : d \in DocLists } \cup {Outcome("null", <<>>), Outcome("throw", <<>>)}
AwaitFetchOutcomes ==
    { Outcome("data", d) : d \in DocLists } \cup {Outcome("throw", <<>>)}

Request(kind) == [kind |-> kind, status |-> "inflight"]
InFlight(kind) ==
    { i \in DOMAIN requests : requests[i].kind = kind /\ requests[i].status = "inflight" }
Issued(kind) == { i \in DOMAIN requests : requests[i].kind = kind }

\* What the handler that ran last was, and the state it started from
Op(name, id, outcome) ==
    [op |-> name, id |-> id, outcome |-> outcome,
     prevFiltered |-> filteredMovies, prevMovies |-> movies,
     prevIssued |-> Len(requests)]

\* How a request that ended with an outcome of this kind is remembered
StatusOf(kind) ==
    CASE kind \in {"ok", "data"} -> "fulfilled"
      [] kind = "null" -> "empty"
      [] OTHER -> "failed"

\* A request leaves flight; its status records how it ended
Settle(id, kind) == [requests EXCEPT ![id].status = StatusOf(kind)]

----------------------------------------------------------------------------
(* Search component: handlers.  A handler without await runs to completion in *)
(* one step, and React applies its batched state updates together.            *)

\* BaseList.fetchMovies: axios.get(baseUrl + '?q=*') is not awaited, so finally
\* runs at once
FetchMoviesBaseList ==
    /\ requests' = Append(requests, Request("fetch"))
    /\ isLoading' = FALSE
    /\ error' = ""
    /\ UNCHANGED <<movies, filteredMovies>>

\* App.tsx MovieList.fetchMovies: the list call is commented out
FetchMoviesMovieList ==
    /\ movies' = <<>>
    /\ filteredMovies' = <<>>
    /\ isLoading' = FALSE
    /\ error' = ""
    /\ UNCHANGED requests

\* part_000 MovieList.fetchMovies up to its await
FetchMoviesAwait ==
    /\ requests' = Append(requests, Request("fetch"))
    /\ isLoading' = TRUE
    /\ error' = ""
    /\ UNCHANGED <<movies, filteredMovies>>

\* useEffect(() => { fetchMovies(); }, [])
Mount ==
    /\ ~mounted
    /\ mounted' = TRUE
    /\ CASE variant = "BaseList" -> FetchMoviesBaseList
         [] variant = "MovieListAxios" -> FetchMoviesMovieList
         [] OTHER -> FetchMoviesAwait
    /\ lastOp' = Op("mount", 0, NoOutcome)
    /\ UNCHANGED <<variant, unmounted, searchQuery>>

\* React unmounts the component.  No effect returns a cleanup and no request
\* carries an AbortController signal: requests in flight stay in flight and
\* their callbacks stay registered.
Unmount ==
    /\ mounted
    /\ ~unmounted
    /\ unmounted' = TRUE
    /\ lastOp' = Op("unmount", 0, NoOutcome)
    /\ UNCHANGED <<variant, mounted, movies, filteredMovies, searchQuery, isLoading, error,
                   requests>>

\* onChange={(e) => setSearchQuery(e.target.value)}; the input is disabled while loading
OnChange(q) ==
    /\ mounted
    /\ ~unmounted
    /\ ~isLoading
    /\ searchQuery' = q
    /\ lastOp' = Op("onChange", 0, NoOutcome)
    /\ UNCHANGED <<variant, mounted, unmounted, movies, filteredMovies, isLoading, error, requests>>

\* The q parameter of the URL a search is sent to
SearchTerm(v, q) == IF v = "BaseList" THEN q \o <<"*">> ELSE q

\* if (!searchQuery.trim()) { setFilteredMovies(movies); return; } ... finally
HandleSearchEmpty ==
    /\ filteredMovies' = movies
    /\ isLoading' = FALSE
    /\ error' = ""
    /\ lastOp' = Op("searchEmpty", 0, NoOutcome)
    /\ UNCHANGED <<movies, requests>>

\* axios.get(...).then(...).catch(...) is not awaited: finally runs at once
HandleSearchAxiosCancelling ==
    /\ Len(requests) < MaxRequests
    /\ requests' = Append([i \in DOMAIN requests |->
                              IF requests[i].kind = "search" /\ requests[i].status = "inflight"
                              THEN [requests[i] EXCEPT !.status = "failed"]
                              ELSE requests[i]],
                          Request("search"))
    /\ isLoading' = FALSE
    /\ error' = ""
    /\ lastOp' = Op("searchIssued", Len(requests) + 1, NoOutcome)
    /\ UNCHANGED <<movies, filteredMovies>>
HandleSearchAxios ==
    /\ Len(requests) < MaxRequests
    /\ requests' = Append(requests, Request("search"))
    /\ isLoading' = FALSE
    /\ error' = ""
    /\ lastOp' = Op("searchIssued", Len(requests) + 1, NoOutcome)
    /\ UNCHANGED <<movies, filteredMovies>>

\* part_000 handleSearch up to await client.queries.searchMovie(...)
HandleSearchAwait ==
    /\ Len(requests) < MaxRequests
    /\ requests' = Append(requests, Request("search"))
    /\ isLoading' = TRUE
    /\ error' = ""
    /\ lastOp' = Op("searchIssued", Len(requests) + 1, NoOutcome)
    /\ UNCHANGED <<movies, filteredMovies>>

\* onSearch={handleSearch}: button and input are disabled while loading
HandleSearchNotDisabled ==
    /\ mounted
    /\ ~unmounted
    /\ IF Trim(searchQuery) = <<>> THEN HandleSearchEmpty
       ELSE IF Awaits(variant) THEN HandleSearchAwait
       ELSE HandleSearchAxios
    /\ UNCHANGED <<variant, mounted, unmounted, searchQuery>>
HandleSearch ==
    /\ mounted
    /\ ~unmounted
    /\ ~isLoading
    /\ IF Trim(searchQuery) = <<>> THEN HandleSearchEmpty
       ELSE IF Awaits(variant) THEN HandleSearchAwait
       ELSE HandleSearchAxios
    /\ UNCHANGED <<variant, mounted, unmounted, searchQuery>>

\* .then(function (response) {...}) of fetchMovies (BaseList)
FetchThen(id, hits) ==
    /\ ~Awaits(variant)
    /\ id \in InFlight("fetch")
    /\ filteredMovies' = ThenData(variant, hits)
    /\ movies' = ThenData(variant, hits)
    /\ requests' = Settle(id, "ok")
    /\ lastOp' = Op("then", id, Outcome("ok", hits))
    /\ UNCHANGED <<variant, mounted, unmounted, searchQuery, isLoading, error>>

\* .then(function (response) {...}) of handleSearch (BaseList, App.tsx MovieList)
SearchThenIfMounted(id, hits) ==
    /\ ~Awaits(variant)
    /\ id \in InFlight("search")
    /\ filteredMovies' = IF unmounted THEN filteredMovies ELSE ThenData(variant, hits)
    /\ requests' = Settle(id, "ok")
    /\ lastOp' = Op("then", id, Outcome("ok", hits))
    /\ UNCHANGED <<variant, mounted, unmounted, movies, searchQuery, isLoading, error>>
SearchThenWritingMovies(id, hits) ==
    /\ ~Awaits(variant)
    /\ id \in InFlight("search")
    /\ filteredMovies' = ThenData(variant, hits)
    /\ movies' = ThenData(variant, hits)
    /\ requests' = Settle(id, "ok")
    /\ lastOp' = Op("then", id, Outcome("ok", hits))
    /\ UNCHANGED <<variant, mounted, unmounted, searchQuery, isLoading, error>>
SearchThen(id, hits) ==
    /\ ~Awaits(variant)
    /\ id \in InFlight("search")
    /\ filteredMovies' = ThenData(variant, hits)
    /\ requests' = Settle(id, "ok")
    /\ lastOp' = Op("then", id, Outcome("ok", hits))
    /\ UNCHANGED <<variant, mounted, unmounted, movies, searchQuery, isLoading, error>>

\* .catch(function (error) { console.log(error); }): the request was rejected, or
\* the .then callback threw on a body without hits.hits
AxiosCatchRetrying(id, kind) ==
    /\ ~Awaits(variant)
    /\ id \in InFlight("fetch") \cup InFlight("search")
    /\ requests' = Append(Settle(id, kind), Request(requests[id].kind))
    /\ lastOp' = Op("catch", id, Outcome(kind, <<>>))
    /\ UNCHANGED <<variant, mounted, unmounted, movies, filteredMovies, searchQuery,
                   isLoading, error>>
AxiosCatch(id, kind) ==
    /\ ~Awaits(variant)
    /\ id \in InFlight("fetch") \cup InFlight("search")
    /\ requests' = Settle(id, kind)
    /\ lastOp' = Op("catch", id, Outcome(kind, <<>>))
    /\ UNCHANGED <<variant, mounted, unmounted, movies, filteredMovies, searchQuery, isLoading, error>>

\* part_000 fetchMovies after its await: try tail, catch, finally
FetchMoviesResume(id, outcome) ==
    /\ Awaits(variant)
    /\ id \in InFlight("fetch")
    /\ IF outcome.kind = "data"
       THEN /\ movies' = outcome.payload
            /\ filteredMovies' = outcome.payload
            /\ UNCHANGED error
       ELSE /\ error' = FetchFailedMsg(variant)
            /\ UNCHANGED <<movies, filteredMovies>>
    /\ isLoading' = FALSE
    /\ requests' = Settle(id, outcome.kind)
    /\ lastOp' = Op("resumed", id, outcome)
    /\ UNCHANGED <<variant, mounted, unmounted, searchQuery>>

\* part_000 handleSearch after its await: if (data) ..., catch, finally
HandleSearchResumeNoFinally(id, outcome) ==
    /\ Awaits(variant)
    /\ id \in InFlight("search")
    /\ CASE outcome.kind = "data" ->
              /\ filteredMovies' = outcome.payload
              /\ isLoading' = FALSE
              /\ UNCHANGED error
         [] outcome.kind = "null" ->
              /\ isLoading' = FALSE
              /\ UNCHANGED <<filteredMovies, error>>
         [] OTHER ->
              /\ error' = SearchFailedMsg
              /\ UNCHANGED <<filteredMovies, isLoading>>
    /\ requests' = Settle(id, outcome.kind)
    /\ lastOp' = Op("resumed", id, outcome)
    /\ UNCHANGED <<variant, mounted, unmounted, movies, searchQuery>>
HandleSearchResume(id, outcome) ==
    /\ Awaits(variant)
    /\ id \in InFlight("search")
    /\ CASE outcome.kind = "data" ->
              /\ filteredMovies' = outcome.payload
              /\ UNCHANGED error
         [] outcome.kind = "null" ->
              UNCHANGED <<filteredMovies, error>>
         [] OTHER ->
              /\ error' = SearchFailedMsg
              /\ UNCHANGED filteredMovies
    /\ isLoading' = FALSE
    /\ requests' = Settle(id, outcome.kind)
    /\ lastOp' = Op("resumed", id, outcome)
    /\ UNCHANGED <<variant, mounted, unmounted, movies, searchQuery>>

----------------------------------------------------------------------------
(* Resolver: searchBaseResolver.js *)

StatusOK == 200
StatusCodes == {StatusOK, 204, 404, 500}

\* The response body is JSON text.  Its three shapes: text that parses to an
\* object with hits.hits, text that parses to an object without hits, and text
\* that is not JSON.
Body(json, hits) == [json |-> json, hits |-> hits]
Bodies ==
    { Body("hits", h) : h \in HitLists } \cup {Body("nohits", <<>>), Body("invalid", <<>>)}

QueryArgs == {Absent, "", "ABC"}

\* What a resolver function hands back: a value, undefined (it fell off its end),
\* or an uncaught error
Returned(kind, value) == [kind |-> kind, value |-> value]
NotCalled == Returned("notCalled", <<>>)

\* export function request(ctx)
request(ctx) ==
    [method |-> "GET",
     params |-> [headers |-> ("Content-Type" :> "application/json"),
                 body |-> [q |-> ctx.args.q]],
     resourcePath |-> "/"]

\* export function response(ctx)
responseIgnoringStatus(ctx) ==
    IF ctx.result.body.json = "hits"
    THEN Returned("value", MapSource(ctx.result.body.hits))
    ELSE Returned("error", <<>>)
responseCatching(ctx) ==
    IF ctx.result.statusCode = StatusOK /\ ctx.result.body.json = "hits"
    THEN Returned("value", MapSource(ctx.result.body.hits))
    ELSE Returned("undefined", <<>>)
response(ctx) ==
    IF ctx.result.statusCode = StatusOK
    THEN IF ctx.result.body.json = "hits"
         THEN Returned("value", MapSource(ctx.result.body.hits))
         ELSE Returned("error", <<>>)
    ELSE Returned("undefined", <<>>)

\* The query string AppSync sends: the entries of params.query (params.body is
\* the request body)
QueryTerms(req) ==
    IF "query" \in DOMAIN req.params
    THEN { <<k, req.params.query[k]>> : k \in DOMAIN req.params.query }
    ELSE {}

NoResult == [statusCode |-> 0, body |-> Body("invalid", <<>>)]
NoRequest == [method |-> "", params |-> [headers |-> ("Content-Type" :> ""), body |-> [q |-> Absent]],
              resourcePath |-> ""]

\* AppSync evaluates request(ctx) and sends what it returns
InvokeRequest ==
    /\ resolverPc = "start"
    /\ httpRequest' = request([args |-> ctxArgs])
    /\ resolverPc' = "sent"
    /\ UNCHANGED <<ctxArgs, ctxResult, resolverOut>>

\* The HTTP data source answers
EndpointAnswers(status, body) ==
    /\ resolverPc = "sent"
    /\ ctxResult' = [statusCode |-> status, body |-> body]
    /\ resolverPc' = "answered"
    /\ UNCHANGED <<ctxArgs, httpRequest, resolverOut>>

\* AppSync evaluates response(ctx)
InvokeResponse ==
    /\ resolverPc = "answered"
    /\ resolverOut' = response([args |-> ctxArgs, result |-> ctxResult])
    /\ resolverPc' = "done"
    /\ UNCHANGED <<ctxArgs, httpRequest, ctxResult>>

----------------------------------------------------------------------------
(* Backend assembly: backend.ts *)

Regions == {"us-east-1", "eu-west-1"}
Accounts == {"111111111111", "222222222222"}
TableNames == {"Movie-abc123-NONE", "Movie"}
BucketNames == {"amplify-bucket-1", "b2"}

collectionName == "dynamodb-etl-collection"

\* The identifiers CloudFormation resolves for the resources of the stack
Environment(region, account, tableName, bucketName) ==
    [region |-> region,
     account |-> account,
     tableName |-> tableName,
     tableArn |-> "arn:aws:dynamodb:" \o region \o ":" \o account \o ":table/" \o tableName,
     bucketName |-> bucketName,
     s3BucketArn |-> "arn:aws:s3:::" \o bucketName,
     collectionArn |-> "arn:aws:aoss:" \o region \o ":" \o account \o ":collection/c1",
     collectionEndpoint |-> "https://c1." \o region \o ".aoss.amazonaws.com",
     pipelineRoleArn |-> "arn:aws:iam::" \o account \o ":role/OpenSearchIntegrationPipelineRole2",
     dataSourceRoleArn |-> "arn:aws:iam::" \o account \o ":role/OpenSearchServerlessDataSourceRole"]

Environments ==
    { Environment(r, a, t, b) : r \in Regions, a \in Accounts, t \in TableNames, b \in BucketNames }

PolicyStatement(sid, actions, resources) ==
    [sid |-> sid, effect |-> "Allow", actions |-> actions, resources |-> resources]

\* openSearchDataSource.grantPrincipal.addToPrincipalPolicy(new iam.PolicyStatement({...}))
dataSourceStatement(e) ==
    PolicyStatement("", {"aoss:APIAccessAll"}, <<e.collectionArn, e.collectionArn \o "/*">>)

dynamoDBExportJobPolicy(e) ==
    PolicyStatement("allowRunExportJob",
        {"dynamodb:DescribeTable", "dynamodb:DescribeContinuousBackups",
         "dynamodb:ExportTableToPointInTime"},
        <<e.tableArn>>)

dynamoDBExportCheckPolicy(e) ==
    PolicyStatement("allowCheckExportjob", {"dynamodb:DescribeExport"},
        <<e.tableArn \o "/export/*">>)

dynamoDBStreamPolicy(e) ==
    PolicyStatement("allowReadFromStream",
        {"dynamodb:DescribeStream", "dynamodb:GetRecords", "dynamodb:GetShardIterator"},
        <<e.tableArn \o "/stream/*">>)

s3ExportPolicyWholeBucket(e) ==
    PolicyStatement("allowReadAndWriteToS3ForExport",
        {"s3:GetObject", "s3:AbortMultipartUpload", "s3:PutObject", "s3:PutObjectAcl"},
        <<e.s3BucketArn, e.s3BucketArn \o "/*">>)
s3ExportPolicy(e) ==
    PolicyStatement("allowReadAndWriteToS3ForExport",
        {"s3:GetObject", "s3:AbortMultipartUpload", "s3:PutObject", "s3:PutObjectAcl"},
        <<e.s3BucketArn, e.s3BucketArn \o "/" \o e.tableName \o "/*">>)

openSearchCollectionPolicy(e) ==
    PolicyStatement("allowOpenSearchAccess",
        {"aoss:BatchGetCollection", "aoss:APIAccessAll", "aoss:GetSecurityPolicy",
         "aoss:CreateCollection", "aoss:ListCollections", "aoss:UpdateCollection",
         "aoss:DeleteCollection"},
        <<e.collectionArn>>)

\* The statement for CloudWatch Logs, built inline in addToPolicy
logsStatement(e) ==
    PolicyStatement("",
        {"logs:CreateLogGroup", "logs:CreateLogStream", "logs:PutLogEvents",
         "logs:DescribeLogGroups", "logs:DescribeLogStreams"},
        <<"arn:aws:logs:" \o e.region \o ":" \o e.account
              \o ":log-group:/aws/opensearchserverless/*",
          "arn:aws:logs:" \o e.region \o ":" \o e.account
              \o ":log-group:/aws/opensearchserverless/*:log-stream:*">>)

\* The statements handed to openSearchIntegrationPipelineRole.addToPolicy, in order
PipelineStatements(e) ==
    <<dynamoDBExportJobPolicy(e), dynamoDBExportCheckPolicy(e), dynamoDBStreamPolicy(e),
      s3ExportPolicy(e), openSearchCollectionPolicy(e), logsStatement(e)>>

\* function createOpenSearchTemplate(config): the document handed to YAML.stringify
createOpenSearchTemplateSwapped(config) ==
    ("version" :> "2") @@
    ("dynamodb-pipeline" :>
       [source |->
          [dynamodb |->
             [acknowledgments |-> TRUE,
              tables |->
                 << [table_arn |-> config.tableArn,
                     stream |-> [start_position |-> "LATEST"],
                     export |-> [s3_bucket |-> config.bucketName,
                                 s3_region |-> config.region,
                                 s3_prefix |-> config.bucketName \o "/"]] >>,
              aws |-> [sts_role_arn |-> config.pipelineRoleArn, region |-> config.region]]],
        sink |->
          << [opensearch |->
                [hosts |-> <<config.openSearchEndpoint>>,
                 index |-> "movie",
                 index_type |-> "custom",
                 document_id |-> "${getMetadata(\"primary_key\")}",
                 action |-> "${getMetadata(\"opensearch_action\")}",
                 document_version |-> "${getMetadata(\"document_version\")}",
                 document_version_type |-> "external",
                 flush_timeout |-> -1,
                 aws |-> [sts_role_arn |-> config.pipelineRoleArn,
                          region |-> config.region,
                          serverless |-> TRUE]]] >>])
createOpenSearchTemplate(config) ==
    ("version" :> "2") @@
    ("dynamodb-pipeline" :>
       [source |->
          [dynamodb |->
             [acknowledgments |-> TRUE,
              tables |->
                 << [table_arn |-> config.tableArn,
                     stream |-> [start_position |-> "LATEST"],
                     export |-> [s3_bucket |-> config.bucketName,
                                 s3_region |-> config.region,
                                 s3_prefix |-> config.tableName \o "/"]] >>,
              aws |-> [sts_role_arn |-> config.pipelineRoleArn, region |-> config.region]]],
        sink |->
          << [opensearch |->
                [hosts |-> <<config.openSearchEndpoint>>,
                 index |-> "movie",
                 index_type |-> "custom",
                 document_id |-> "${getMetadata(\"primary_key\")}",
                 action |-> "${getMetadata(\"opensearch_action\")}",
                 document_version |-> "${getMetadata(\"document_version\")}",
                 document_version_type |-> "external",
                 flush_timeout |-> -1,
                 aws |-> [sts_role_arn |-> config.pipelineRoleArn,
                          region |-> config.region,
                          serverless |-> TRUE]]] >>])

\* The argument of the one call of createOpenSearchTemplate
TemplateConfigDataSourceRole(e) ==
    [tableArn |-> e.tableArn,
     bucketName |-> e.bucketName,
     region |-> e.region,
     tableName |-> e.tableName,
     pipelineRoleArn |-> e.dataSourceRoleArn,
     openSearchEndpoint |-> e.collectionEndpoint]
TemplateConfig(e) ==
    [tableArn |-> e.tableArn,
     bucketName |-> e.bucketName,
     region |-> e.region,
     tableName |-> e.tableName,
     pipelineRoleArn |-> e.pipelineRoleArn,
     openSearchEndpoint |-> e.collectionEndpoint]

NoTemplate == ("version" :> "")

\* backend.ts runs top to bottom: pc counts the statements done
GrantDataSource ==
    /\ pc = "grant"
    /\ dataSourcePolicy' = Append(dataSourcePolicy, dataSourceStatement(env))
    /\ pc' = "addToPolicy"
    /\ UNCHANGED <<env, pipelineRolePolicy, openSearchTemplate>>

AddToPolicy ==
    /\ pc = "addToPolicy"
    /\ pipelineRolePolicy' =
          Append(pipelineRolePolicy, PipelineStatements(env)[Len(pipelineRolePolicy) + 1])
    /\ pc' = IF Len(pipelineRolePolicy) + 1 = Len(PipelineStatements(env))
             THEN "template" ELSE "addToPolicy"
    /\ UNCHANGED <<env, dataSourcePolicy, openSearchTemplate>>

CreateTemplate ==
    /\ pc = "template"
    /\ openSearchTemplate' = createOpenSearchTemplate(TemplateConfig(env))
    /\ pc' = "done"
    /\ UNCHANGED <<env, dataSourcePolicy, pipelineRolePolicy>>

----------------------------------------------------------------------------
(* Specifications.  The three parts of the repository do not share state: each *)
(* has its own specification, and the other parts stay as constructed.         *)

UIConstructed ==
    /\ mounted = FALSE
    /\ unmounted = FALSE
    /\ movies = <<>>
    /\ filteredMovies = <<>>
    /\ searchQuery = <<>>
    /\ isLoading = FALSE
    /\ error = ""
    /\ requests = <<>>
    /\ lastOp = [op |-> "init", id |-> 0, outcome |-> NoOutcome,
                 prevFiltered |-> <<>>, prevMovies |-> <<>>,
                 prevIssued |-> 0]

ResolverConstructed ==
    /\ resolverPc = "start"
    /\ httpRequest = NoRequest
    /\ ctxResult = NoResult
    /\ resolverOut = NotCalled

BackendConstructed ==
    /\ pc = "grant"
    /\ dataSourcePolicy = <<>>
    /\ pipelineRolePolicy = <<>>
    /\ openSearchTemplate = NoTemplate

\* ---- the search component ----
Init ==
    /\ variant \in Variants
    /\ UIConstructed
    /\ ctxArgs = [q |-> Absent]
    /\ ResolverConstructed
    /\ env = Environment("us-east-1", "111111111111", "Movie", "b2")
    /\ BackendConstructed

Next ==
    \/ Mount /\ UNCHANGED <<resolverVars, backendVars>>
    \/ Unmount /\ UNCHANGED <<resolverVars, backendVars>>
    \/ \E q \in Queries : OnChange(q) /\ UNCHANGED <<resolverVars, backendVars>>
    \/ HandleSearch /\ UNCHANGED <<resolverVars, backendVars>>
    \/ \E id \in DOMAIN requests, h \in HitLists :
          FetchThen(id, h) /\ UNCHANGED <<resolverVars, backendVars>>
    \/ \E id \in DOMAIN requests, h \in HitLists :
          SearchThen(id, h) /\ UNCHANGED <<resolverVars, backendVars>>
    \/ \E id \in DOMAIN requests, k \in {"malformed", "reject"} :
          AxiosCatch(id, k) /\ UNCHANGED <<resolverVars, backendVars>>
    \/ \E id \in DOMAIN requests, o \in AwaitFetchOutcomes :
          FetchMoviesResume(id, o) /\ UNCHANGED <<resolverVars, backendVars>>
    \/ \E id \in DOMAIN requests, o \in AwaitSearchOutcomes :
          HandleSearchResume(id, o) /\ UNCHANGED <<resolverVars, backendVars>>

Spec == Init /\ [][Next]_vars

\* A request in flight resolves or rejects and its continuation runs
RequestSettles ==
    \E id \in InFlight("fetch") \cup InFlight("search") :
       IF Awaits(variant)
       THEN \/ \E o \in AwaitFetchOutcomes : FetchMoviesResume(id, o)
            \/ \E o \in AwaitSearchOutcomes : HandleSearchResume(id, o)
       ELSE \/ \E h \in HitLists : FetchThen(id, h)
            \/ \E h \in HitLists : SearchThen(id, h)
            \/ \E k \in {"malformed", "reject"} : AxiosCatch(id, k)

\* The search component when no request stays in flight for ever
SpecLive == Spec /\ WF_vars(RequestSettles /\ UNCHANGED <<resolverVars, backendVars>>)

\* ---- one invocation of the resolver ----
InitResolver ==
    /\ variant = "BaseList"
    /\ UIConstructed
    /\ ctxArgs \in { [q |-> a] : a \in QueryArgs }
    /\ ResolverConstructed
    /\ env = Environment("us-east-1", "111111111111", "Movie", "b2")
    /\ BackendConstructed

NextResolver ==
    \/ InvokeRequest /\ UNCHANGED <<uiVars, backendVars>>
    \/ \E st \in StatusCodes, b \in Bodies :
          EndpointAnswers(st, b) /\ UNCHANGED <<uiVars, backendVars>>
    \/ InvokeResponse /\ UNCHANGED <<uiVars, backendVars>>

SpecResolver == InitResolver /\ [][NextResolver]_vars

\* ---- one synthesis of the backend ----
InitBackend ==
    /\ variant = "BaseList"
    /\ UIConstructed
    /\ ctxArgs = [q |-> Absent]
    /\ ResolverConstructed
    /\ env \in Environments
    /\ BackendConstructed

NextBackend ==
    \/ GrantDataSource /\ UNCHANGED <<uiVars, resolverVars>>
    \/ AddToPolicy /\ UNCHANGED <<uiVars, resolverVars>>
    \/ CreateTemplate /\ UNCHANGED <<uiVars, resolverVars>>

SpecBackend == InitBackend /\ [][NextBackend]_vars

----------------------------------------------------------------------------
(* Properties *)

\* The documents a settled request delivered
Delivered(outcome) ==
    IF outcome.kind = "ok" THEN MapSource(outcome.payload) ELSE outcome.payload

\* The handler that ran last completed a request of this kind with this outcome
Completed(kind, outcomeKinds) ==
    /\ lastOp.op \in {"then", "catch", "resumed"}
    /\ requests[lastOp.id].kind = kind
    /\ lastOp.outcome.kind \in outcomeKinds

Blank(q) == \A i \in DOMAIN q : q[i] = " "

\* C1: for a status-200 response whose body parses to hits.hits of N hits,
\* response() returns a sequence of exactly N elements, the i-th being the
\* _source of the i-th hit; for N = 0 the empty sequence, not an error or absence.
C1_ResponseMapsHitsInOrder ==
    (resolverPc = "done" /\ ctxResult.statusCode = StatusOK /\ ctxResult.body.json = "hits")
    => /\ resolverOut.kind = "value"
       /\ Len(resolverOut.value) = Len(ctxResult.body.hits)
       /\ \A i \in 1..Len(ctxResult.body.hits) :
             resolverOut.value[i] = ctxResult.body.hits[i]._source

C1_Witness ==
    /\ resolverPc = "done"
    /\ ctxResult.statusCode = StatusOK
    /\ ctxResult.body.json = "hits"
    /\ Len(ctxResult.body.hits) = 2
    /\ ctxResult.body.hits[1] # ctxResult.body.hits[2]
    /\ resolverOut.kind = "value"
    /\ resolverOut.value[1].name = "XYZ"

\* C2: for every response whose status code is not 200, whatever its body,
\* response() produces no value, which differs from the empty sequence it
\* produces for a 200 response with zero hits.
C2_Non200YieldsNoResult ==
    (resolverPc = "done" /\ ctxResult.statusCode # StatusOK)
    => /\ resolverOut.kind = "undefined"
       /\ resolverOut #
            response([args |-> ctxArgs,
                      result |-> [statusCode |-> StatusOK, body |-> Body("hits", <<>>)]])

C2_Witness ==
    /\ resolverPc = "done"
    /\ ctxResult.statusCode = 500
    /\ ctxResult.body.json = "hits"
    /\ Len(ctxResult.body.hits) = 1
    /\ resolverOut.kind = "undefined"

\* C3: when a user-initiated search fails (the request is rejected), the
\* component shows the static error message and the displayed list is what it
\* was before the search.
C3_FailedSearchShowsError ==
    Completed("search", {"reject", "throw"})
    => /\ error = SearchFailedMsg
       /\ filteredMovies = lastOp.prevFiltered

\* C4: isLoading is never false while a search request started by handleSearch
\* is still in flight.
C4_LoadingWhileSearchInFlight ==
    InFlight("search") # {} => isLoading

\* C5: when handleSearch runs with empty or whitespace-only text, no request is
\* issued, the displayed list becomes the full list, and the full list is unchanged.
C5_EmptyQueryResets ==
    (lastOp.op \in {"searchEmpty", "searchIssued"} /\ Blank(searchQuery))
    => /\ Len(requests) = lastOp.prevIssued
       /\ filteredMovies = lastOp.prevMovies
       /\ movies = lastOp.prevMovies

C5_Witness ==
    /\ lastOp.op = "searchEmpty"
    /\ searchQuery = <<" ">>
    /\ movies # <<>>
    /\ lastOp.prevFiltered # movies
    /\ filteredMovies = movies

\* C6 as claimed: after a search succeeds with N hits the displayed list is
\* exactly the N documents of the response in response order, one card per
\* document titled with the document's name.  Read in the claim's favour: a
\* missing allianceTag and an empty one count as the same document, and a
\* leading blank of a title, which the browser does not show, is ignored.
C6_DisplayedIsResponse ==
    (Completed("search", {"ok", "data"}) /\ ~unmounted)
    => LET docs == Delivered(lastOp.outcome)
           same(a, b) == a.name = b.name /\ Text(a.allianceTag) = Text(b.allianceTag)
       IN  /\ Len(filteredMovies) = Len(docs)
           /\ Len(Cards) = Len(docs)
           /\ \A i \in 1..Len(docs) :
                 /\ same(filteredMovies[i], docs[i])
                 /\ Cards[i] \in {docs[i].name, " " \o docs[i].name}

\* C6 as amended: in the components of App.tsx, after a search succeeds with N
\* hits the displayed list is the N documents of the response in response
\* order, in BaseList each with its allianceTag rewritten to "[tag]" ("" when
\* it has none); there is one card per document, titled with the name in
\* MovieList and with the rewritten tag, a space and the name in BaseList.
C6_DisplayedIsResponseDecorated ==
    (Completed("search", {"ok"}) /\ ~Awaits(variant) /\ ~unmounted)
    => LET docs == Delivered(lastOp.outcome)
           tag(d) == IF d.allianceTag \in {Absent, ""} THEN ""
                     ELSE "[" \o d.allianceTag \o "]"
       IN  /\ Len(filteredMovies) = Len(docs)
           /\ Len(Cards) = Len(docs)
           /\ \A i \in 1..Len(docs) :
                 IF variant = "BaseList"
                 THEN /\ filteredMovies[i] = [name |-> docs[i].name, allianceTag |-> tag(docs[i])]
                      /\ Cards[i] = tag(docs[i]) \o " " \o docs[i].name
                 ELSE /\ filteredMovies[i] = docs[i]
                      /\ Cards[i] = docs[i].name

C6_Witness ==
    /\ Completed("search", {"ok"})
    /\ variant = "BaseList"
    /\ Len(lastOp.outcome.payload) = 2
    /\ lastOp.prevFiltered # <<>>
    /\ Cards = <<"[AB] XYZ", " ABC Base">>

\* C7: mounting triggers exactly one fetch of all documents, and when that
\* fetch succeeds the full list and the displayed list both equal its result.
C7_MountFetchesOnce ==
    /\ mounted => Cardinality(Issued("fetch")) = 1
    /\ Completed("fetch", {"ok", "data"})
       => /\ movies = Delivered(lastOp.outcome)
          /\ filteredMovies = Delivered(lastOp.outcome)

\* C8: the document built by createOpenSearchTemplate has exactly one entry in
\* source.dynamodb.tables and exactly one in sink, and every input sits
\* unmodified in its field: table_arn, s3_bucket, s3_region and both
\* aws.region, s3_prefix (the table name, followed by "/"), both sts_role_arn,
\* hosts.
C8_TemplateCarriesInputs ==
    pc = "done"
    => LET p == openSearchTemplate["dynamodb-pipeline"]
           src == p.source.dynamodb
       IN  /\ Len(src.tables) = 1
           /\ Len(p.sink) = 1
           /\ src.tables[1].table_arn = env.tableArn
           /\ src.tables[1].export.s3_bucket = env.bucketName
           /\ src.tables[1].export.s3_region = env.region
           /\ src.tables[1].export.s3_prefix = env.tableName \o "/"
           /\ src.aws.region = env.region
           /\ src.aws.sts_role_arn = env.pipelineRoleArn
           /\ p.sink[1].opensearch.aws.region = env.region
           /\ p.sink[1].opensearch.aws.sts_role_arn = env.pipelineRoleArn
           /\ p.sink[1].opensearch.hosts = <<env.collectionEndpoint>>

C8_Witness ==
    /\ pc = "done"
    /\ env.tableName = "Movie-abc123-NONE"
    /\ env.bucketName = "amplify-bucket-1"
    /\ env.region = "eu-west-1"
    /\ openSearchTemplate["dynamodb-pipeline"].source.dynamodb.tables[1].export.s3_prefix
         = "Movie-abc123-NONE/"

\* Every statement built so far
AllStatements ==
    { dataSourcePolicy[i] : i \in DOMAIN dataSourcePolicy }
      \cup { pipelineRolePolicy[i] : i \in DOMAIN pipelineRolePolicy }

ResourcesOf(st) == { st.resources[i] : i \in DOMAIN st.resources }

ScopedResources ==
    { env.tableArn, env.tableArn \o "/export/*", env.tableArn \o "/stream/*",
      env.s3BucketArn, env.s3BucketArn \o "/" \o env.tableName \o "/*",
      env.collectionArn, env.collectionArn \o "/*" }

LogGroupResources ==
    { "arn:aws:logs:" \o env.region \o ":" \o env.account
         \o ":log-group:/aws/opensearchserverless/*",
      "arn:aws:logs:" \o env.region \o ":" \o env.account
         \o ":log-group:/aws/opensearchserverless/*:log-stream:*" }

\* C10 as claimed: every resource of every statement built in backend.ts is the
\* table, bucket or collection ARN or that ARN followed by a sub-path wildcard,
\* and none is the unscoped wildcard.
C10_AllResourcesScoped ==
    \A st \in AllStatements : \A r \in ResourcesOf(st) :
        /\ r \in ScopedResources
              \cup {env.tableArn \o "/*", env.s3BucketArn \o "/*"}
        /\ r # "*"

\* C10 as amended: every resource of every statement built in backend.ts is the
\* table, bucket or collection ARN or one of <table-arn>/export/*,
\* <table-arn>/stream/*, <bucket-arn>/<table-name>/*, <collection-arn>/*,
\* except in the CloudWatch Logs statement of the pipeline role, whose
\* resources are the two log-group patterns under /aws/opensearchserverless/;
\* no statement has the unscoped wildcard as a resource.
C10_ResourcesScopedButLogs ==
    \A st \in AllStatements :
        /\ \A r \in ResourcesOf(st) : r # "*"
        /\ \/ ResourcesOf(st) \subseteq ScopedResources
           \/ /\ \A a \in st.actions : a \in
                    {"logs:CreateLogGroup", "logs:CreateLogStream", "logs:PutLogEvents",
                     "logs:DescribeLogGroups", "logs:DescribeLogStreams"}
              /\ ResourcesOf(st) = LogGroupResources

C10_Witness ==
    /\ pc = "done"
    /\ Len(dataSourcePolicy) = 1
    /\ Len(pipelineRolePolicy) = 6
    /\ env.tableName = "Movie-abc123-NONE"
    /\ (env.s3BucketArn \o "/Movie-abc123-NONE/*") \in ResourcesOf(pipelineRolePolicy[4])

\* C11: for every query argument q, request() produces a GET request to the
\* fixed resource path whose query string is exactly q=<text>, and nothing else
\* in the request depends on the context.
C11_RequestCarriesQueryTerm ==
    resolverPc # "start"
    => /\ httpRequest.method = "GET"
       /\ httpRequest.resourcePath = "/"
       /\ httpRequest.params.headers = ("Content-Type" :> "application/json")
       /\ QueryTerms(httpRequest) = { <<"q", ctxArgs.q>> }

\* What the callback of a settled request stored
StoredBy(outcome) ==
    IF outcome.kind = "ok" THEN ThenData(variant, outcome.payload) ELSE outcome.payload

\* C12: search requests are neither cancelled nor de-duplicated: a request in
\* flight leaves flight only when it settles itself, every search with text
\* issues a request of its own, and a search response that resolves replaces
\* the displayed list with its documents whatever was issued after it.
C12_NotCancelledLastResolvedWins ==
    [][ /\ \A i \in DOMAIN requests :
              requests[i].status = "inflight"
              => \/ requests'[i].status = "inflight"
                 \/ lastOp'.id = i /\ lastOp'.op \in {"then", "catch", "resumed"}
        /\ (lastOp'.op = "searchIssued" /\ lastOp' # lastOp)
              => /\ Len(requests') = Len(requests) + 1
                 /\ requests'[Len(requests')] = Request("search")
        /\ (lastOp'.op = "then" /\ lastOp' # lastOp /\ requests[lastOp'.id].kind = "search")
              => filteredMovies' = ThenData(variant, lastOp'.outcome.payload)
      ]_vars

\* Two searches were in flight together, the later-issued one resolved first,
\* and the list now shown is that of the earlier-issued one.
C12_Witness ==
    /\ ~unmounted
    /\ lastOp.op = "then"
    /\ requests[lastOp.id].kind = "search"
    /\ \E j \in DOMAIN requests :
          /\ j > lastOp.id
          /\ requests[j].kind = "search"
          /\ requests[j].status = "fulfilled"
    /\ lastOp.prevFiltered # <<>>
    /\ filteredMovies # lastOp.prevFiltered
    /\ filteredMovies = ThenData(variant, lastOp.outcome.payload)

\* C13: no automatic retry: a request is issued only by the mount (at most one)
\* or by a user search (exactly one), never by a callback, so after a request
\* fails nothing is issued until the user searches again.
C13_NoAutomaticRetry ==
    /\ lastOp.op = "mount" => Len(requests) \in {lastOp.prevIssued, lastOp.prevIssued + 1}
    /\ lastOp.op = "searchIssued" => Len(requests) = lastOp.prevIssued + 1
    /\ lastOp.op \notin {"mount", "searchIssued"} => Len(requests) = lastOp.prevIssued
    /\ Cardinality(Issued("fetch")) <= 1

C13_Witness ==
    /\ Completed("search", {"reject", "throw"})
    /\ Len(requests) = lastOp.prevIssued
    /\ InFlight("search") \cup InFlight("fetch") = {}

\* C14: no request is cancelled on unmount: unmounting leaves the requests in
\* flight as they are, and when the response of one arrives after the unmount
\* its callback still makes its state update.
C14_LateUpdateNotSuppressed ==
    /\ [][ (lastOp'.op = "unmount" /\ lastOp.op # "unmount") => requests' = requests ]_vars
    /\ [] ( (unmounted /\ Completed("search", {"ok", "data"}))
               => filteredMovies = StoredBy(lastOp.outcome) )
    /\ [] ( (unmounted /\ Completed("fetch", {"ok", "data"}))
               => /\ filteredMovies = StoredBy(lastOp.outcome)
                  /\ movies = StoredBy(lastOp.outcome) )

C14_Witness ==
    /\ unmounted
    /\ Completed("search", {"ok", "data"})
    /\ filteredMovies # <<>>
    /\ filteredMovies # lastOp.prevFiltered

\* C15: a malformed body is not handled: for a status-200 response whose body
\* is not JSON, or is JSON without hits.hits, response() ends in an uncaught
\* error; it returns neither a sequence nor nothing.
C15_MalformedBodyUncaught ==
    (/\ resolverPc = "done"
     /\ ctxResult.statusCode = StatusOK
     /\ ctxResult.body.json \in {"nohits", "invalid"})
    => /\ resolverOut.kind = "error"
       /\ resolverOut.kind \notin {"value", "undefined"}

C15_Witness ==
    /\ resolverPc = "done"
    /\ ctxResult.statusCode = StatusOK
    /\ ctxResult.body.json = "nohits"
    /\ resolverOut = Returned("error", <<>>)

\* C18: in the variant that awaits its requests at most one request is in
\* flight at any time, and isLoading (which disables the search input and
\* button) is true for as long as one is, so a search is started only when
\* every earlier request has completed.
C18_AwaitingOneInFlight ==
    Awaits(variant)
    => /\ Cardinality(InFlight("fetch") \cup InFlight("search")) <= 1
       /\ (InFlight("fetch") \cup InFlight("search") # {}) => isLoading
       /\ lastOp.op = "searchIssued"
             => \A i \in DOMAIN requests : i # lastOp.id => requests[i].status # "inflight"

C18_Witness ==
    /\ Awaits(variant)
    /\ lastOp.op = "searchIssued"
    /\ InFlight("search") = {2}
    /\ requests[1].kind = "fetch"
    /\ requests[1].status = "fulfilled"
    /\ isLoading

\* C19: handleSearch never changes the full list: only the completion of the
\* mount-time fetch writes movies, with what that fetch delivered; until then
\* movies is empty; so an empty-query search, after whatever searches, shows
\* the result of the mount-time fetch, or nothing if that has not succeeded.
C19_OnlyFetchWritesMovies ==
    /\ movies # lastOp.prevMovies
          => /\ Completed("fetch", {"ok", "data"})
             /\ movies = StoredBy(lastOp.outcome)
    /\ (\A i \in Issued("fetch") : requests[i].status # "fulfilled") => movies = <<>>
    /\ lastOp.op \in {"searchEmpty", "searchIssued"} => movies = lastOp.prevMovies
    /\ Completed("search", {"ok", "data", "null", "malformed", "reject", "throw"})
          => movies = lastOp.prevMovies
    /\ lastOp.op = "searchEmpty" => filteredMovies = movies

\* An empty-query search after a successful search puts the fetched list back
C19_Witness ==
    /\ lastOp.op = "searchEmpty"
    /\ \E i \in Issued("fetch") : requests[i].status = "fulfilled"
    /\ \E i \in Issued("search") : requests[i].status = "fulfilled"
    /\ Len(movies) = 2
    /\ Len(lastOp.prevFiltered) = 1
    /\ filteredMovies = movies

\* An IAM resource pattern that ends in * covers every ARN that starts with
\* what precedes the *; a pattern without * covers itself alone
Covers(pattern, arn) ==
    LET n == Len(pattern)
    IN IF n > 0 /\ SubSeq(pattern, n, n) = "*"
       THEN Len(arn) >= n - 1 /\ SubSeq(arn, 1, n - 1) = SubSeq(pattern, 1, n - 1)
       ELSE arn = pattern

\* What follows the prefix in the key of an exported object
KeyTails == {"", "manifest.json", "AWSDynamoDB/01-abc/data/x.json.gz"}

\* The export location of the pipeline configuration
ExportOf(template) == template["dynamodb-pipeline"].source.dynamodb.tables[1].export

\* C20: the export location of the pipeline configuration is covered by the S3
\* statement of the pipeline role: every object key under s3_prefix in s3_bucket
\* matches the resource pattern <bucket-arn>/<table-name>/* of the statement
\* that grants s3:PutObject, that statement is attached to the pipeline role,
\* and sts_role_arn of the configuration names that role.
C20_ExportLocationCovered ==
    pc = "done"
    => LET export == ExportOf(openSearchTemplate)
           pipeline == openSearchTemplate["dynamodb-pipeline"]
       IN /\ export.s3_prefix = env.tableName \o "/"
          /\ \A t \in KeyTails :
                \E i \in DOMAIN pipelineRolePolicy :
                   /\ pipelineRolePolicy[i].sid = "allowReadAndWriteToS3ForExport"
                   /\ "s3:PutObject" \in pipelineRolePolicy[i].actions
                   /\ Covers(env.s3BucketArn \o "/" \o env.tableName \o "/*",
                             "arn:aws:s3:::" \o export.s3_bucket \o "/" \o export.s3_prefix \o t)
                   /\ (env.s3BucketArn \o "/" \o env.tableName \o "/*")
                         \in ResourcesOf(pipelineRolePolicy[i])
          /\ pipeline.source.dynamodb.aws.sts_role_arn = env.pipelineRoleArn
          /\ pipeline.sink[1].opensearch.aws.sts_role_arn = env.pipelineRoleArn

C20_Witness ==
    /\ pc = "done"
    /\ env.tableName = "Movie"
    /\ env.bucketName = "b2"
    /\ ExportOf(openSearchTemplate).s3_prefix = "Movie/"
    /\ "arn:aws:s3:::b2/Movie/*" \in ResourcesOf(pipelineRolePolicy[4])
    /\ Covers("arn:aws:s3:::b2/Movie/*", "arn:aws:s3:::b2/Movie/manifest.json")
    /\ ~Covers("arn:aws:s3:::b2/Movie/*", "arn:aws:s3:::b2/Movie-abc123-NONE/manifest.json")

\* C17: loading never sticks: after fetchMovies or handleSearch has been
\* invoked, and whenever isLoading is true, isLoading eventually is false,
\* whether the invocation ends in success, in failure or in the empty-query
\* return, provided every request in flight eventually settles.
C17_LoadingEnds ==
    (isLoading \/ lastOp.op \in {"mount", "searchEmpty", "searchIssued"}) ~> ~isLoading

\* A search that was awaited with isLoading true failed, and loading has ended
C17_Witness ==
    /\ Awaits(variant)
    /\ lastOp.op = "resumed"
    /\ requests[lastOp.id].kind = "search"
    /\ lastOp.outcome.kind = "throw"
    /\ error = SearchFailedMsg
    /\ ~isLoading

====
